---- MODULE Spec2Model ----
(***************************************************************************)
(* A model of bro.py: convert_sciper_to_ip and modify_pcap, the rewriter   *)
(* of DNS A records in a capture file.                                     *)
(*                                                                         *)
(* Strings are sequences of one-character strings.  A Python field that    *)
(* can be None is a sequence: <<>> is None, <<v>> is the value v.          *)
(* Python indices are 0-based; sequence positions here are 1-based, so     *)
(* section[i] of the code is section[i + 1] of the model.                  *)
(***************************************************************************)
EXTENDS Integers, Sequences, FiniteSets, TLC

\* ------------------------------------------------------------------ bounds
\* longest capture, in packets
MaxPkts == 2
\* most resource records in one DNS message (the three sections together)
MaxRecs == 2
\* longest identifier handed to convert_sciper_to_ip
MaxLen == 6

\* ------------------------------------------------- convert_sciper_to_ip
ChunkLen == 2

TypeA == 1

SCIPER == <<"3", "7", "7", "6", "9", "0">>

Digits == {"0", "3", "6", "7", "9"}

\* [sciper[i:i+n] for i in range(0, len(sciper), n)]
RECURSIVE Chunks(_, _)
Chunks(s, n) ==
    IF Len(s) = 0 THEN <<>>
    ELSE IF Len(s) <= n THEN <<s>>
    ELSE <<SubSeq(s, 1, n)>> \o Chunks(SubSeq(s, n + 1, Len(s)), n)

\* sep.join(parts)
RECURSIVE Join(_, _)
Join(parts, sep) ==
    IF Len(parts) = 0 THEN <<>>
    ELSE IF Len(parts) = 1 THEN parts[1]
    ELSE parts[1] \o sep \o Join(Tail(parts), sep)

convert_sciper_to_ip_no_prefix(sciper) ==
    Join(Chunks(sciper, ChunkLen), <<".">>)

convert_sciper_to_ip(sciper) ==
    <<"0", "0", ".">> \o Join(Chunks(sciper, ChunkLen), <<".">>)

\* ------------------------------------------- the capture codec (scapy)
\* The value of a decimal digit.
DigitVal(c) ==
    CASE c = "0" -> 0 [] c = "1" -> 1 [] c = "2" -> 2 [] c = "3" -> 3
      [] c = "4" -> 4 [] c = "5" -> 5 [] c = "6" -> 6 [] c = "7" -> 7
      [] c = "8" -> 8 [] c = "9" -> 9

DigitChar(d) ==
    CASE d = 0 -> "0" [] d = 1 -> "1" [] d = 2 -> "2" [] d = 3 -> "3"
      [] d = 4 -> "4" [] d = 5 -> "5" [] d = 6 -> "6" [] d = 7 -> "7"
      [] d = 8 -> "8" [] d = 9 -> "9"

\* The number a string of decimal digits denotes ("00" is 0).
RECURSIVE ToInt(_)
ToInt(s) ==
    IF Len(s) = 0 THEN 0
    ELSE 10 * ToInt(SubSeq(s, 1, Len(s) - 1)) + DigitVal(s[Len(s)])

\* The decimal digits of a number, without leading zeros.
RECURSIVE ToStr(_)
ToStr(n) ==
    IF n < 10 THEN <<DigitChar(n)>>
    ELSE ToStr(n \div 10) \o <<DigitChar(n % 10)>>

\* s.split(".")
RECURSIVE Split(_, _)
Split(s, acc) ==
    IF Len(s) = 0 THEN <<acc>>
    ELSE IF s[1] = "." THEN <<acc>> \o Split(Tail(s), <<>>)
    ELSE Split(Tail(s), Append(acc, s[1]))

\* A dotted quad to its four octets, as the codec writes an A record's rdata.
Octets(addr) ==
    LET parts == Split(addr, <<>>)
    IN  [j \in 1..Len(parts) |-> ToInt(parts[j]) % 256]

\* Four octets to the dotted quad the codec shows for them.
Dotted(octets) ==
    Join([j \in 1..Len(octets) |-> ToStr(octets[j])], <<".">>)

\* A resource record on the wire: an A record carries octets, any other
\* record carries its data as text.
WireRR(rr) ==
    IF rr.type = TypeA
    THEN [type |-> rr.type, octets |-> Octets(rr.rdata), text |-> <<>>]
    ELSE [type |-> rr.type, octets |-> <<>>, text |-> rr.rdata]

ParseRR(w) ==
    IF w.type = TypeA
    THEN [type |-> w.type, rdata |-> Dotted(w.octets)]
    ELSE [type |-> w.type, rdata |-> w.text]

RECURSIVE SumSeq(_)
SumSeq(s) == IF Len(s) = 0 THEN 0 ELSE s[1] + SumSeq(Tail(s))

\* Bytes and byte sum of the records of a message, as serialised.
RRBytes(w) == 10 + Len(w.octets) + Len(w.text)
RRSum(w) == w.type + SumSeq(w.octets) + Len(w.text)

SectionsOf(m) == m.an \o m.ns \o m.ar

PayloadLen(f) ==
    IF f.dns
    THEN 12 + SumSeq([j \in 1..Len(SectionsOf(f)) |-> RRBytes(SectionsOf(f)[j])])
    ELSE 4

PayloadSum(f) ==
    IF f.dns
    THEN f.qr + f.ancount + f.nscount + f.arcount
         + SumSeq([j \in 1..Len(SectionsOf(f)) |-> RRSum(SectionsOf(f)[j])])
    ELSE 4

\* What the codec computes for a length or checksum field left unset.
UdpLen(f) == 8 + PayloadLen(f)
UdpChk(f) == (UdpLen(f) + PayloadSum(f)) % 65536
IpLen(f) == 20 + (IF f.udp THEN UdpLen(f) ELSE 20 + PayloadLen(f))
IpChk(f) == 65535 - (IpLen(f) % 65536)

\* rdpcap's view of one frame: a packet object with named fields.
ParsePacket(f) ==
    [dns |-> f.dns, qr |-> f.qr,
     an |-> [j \in 1..Len(f.an) |-> ParseRR(f.an[j])],
     ns |-> [j \in 1..Len(f.ns) |-> ParseRR(f.ns[j])],
     ar |-> [j \in 1..Len(f.ar) |-> ParseRR(f.ar[j])],
     ancount |-> f.ancount, nscount |-> f.nscount, arcount |-> f.arcount,
     ip |-> f.ip, udp |-> f.udp,
     iplen |-> IF f.ip THEN <<f.iplen>> ELSE <<>>,
     ipchk |-> IF f.ip THEN <<f.ipchk>> ELSE <<>>,
     udplen |-> IF f.udp THEN <<f.udplen>> ELSE <<>>,
     udpchk |-> IF f.udp THEN <<f.udpchk>> ELSE <<>>,
     time |-> f.sec * 1000000 + f.usec]

\* The content of a packet as wrpcap lays it out, before lengths and checksums.
WireBody(p) ==
    [dns |-> p.dns, qr |-> p.qr,
     an |-> [j \in 1..Len(p.an) |-> WireRR(p.an[j])],
     ns |-> [j \in 1..Len(p.ns) |-> WireRR(p.ns[j])],
     ar |-> [j \in 1..Len(p.ar) |-> WireRR(p.ar[j])],
     ancount |-> p.ancount, nscount |-> p.nscount, arcount |-> p.arcount,
     ip |-> p.ip, udp |-> p.udp]

\* wrpcap's frame for one packet: a field left unset (deleted) is computed
\* from the content, a field that is set is written as it is.
SerializePacket(p) ==
    LET w == WireBody(p)
    IN  [dns |-> w.dns, qr |-> w.qr, an |-> w.an, ns |-> w.ns, ar |-> w.ar,
         ancount |-> w.ancount, nscount |-> w.nscount, arcount |-> w.arcount,
         ip |-> w.ip, udp |-> w.udp,
         iplen |-> IF ~p.ip THEN 0 ELSE IF p.iplen = <<>> THEN IpLen(w) ELSE p.iplen[1],
         ipchk |-> IF ~p.ip THEN 0 ELSE IF p.ipchk = <<>> THEN IpChk(w) ELSE p.ipchk[1],
         udplen |-> IF ~p.udp THEN 0 ELSE IF p.udplen = <<>> THEN UdpLen(w) ELSE p.udplen[1],
         udpchk |-> IF ~p.udp THEN 0 ELSE IF p.udpchk = <<>> THEN UdpChk(w) ELSE p.udpchk[1],
         sec |-> p.time \div 1000000, usec |-> p.time % 1000000]

\* ------------------------------------------------------ input captures
\* The records input captures are built from: an A record for
\* 93.184.216.34 and a CNAME record (type 5).
InputRRs ==
    {[type |-> TypeA, octets |-> <<93, 184, 216, 34>>, text |-> <<>>],
     [type |-> 5, octets |-> <<>>, text |-> <<"c", "d", "n">>]}

SectionsUpTo(n) == UNION {[1..m -> InputRRs] : m \in 0..n}

\* The three sections of a message of at most n records.
Messages(n) ==
    {t \in SectionsUpTo(n) \X SectionsUpTo(n) \X SectionsUpTo(n) :
        Len(t[1]) + Len(t[2]) + Len(t[3]) <= n}

\* A frame before its timestamp and its length and checksum fields.  x[s] is
\* by how much section s's declared count exceeds the records captured;
\* offload says that the sender left the checksums to its network card, so
\* that the capture holds 0 for them.
DnsShape(t, qr, x, ip, udp, offload) ==
    [dns |-> TRUE, qr |-> qr, an |-> t[1], ns |-> t[2], ar |-> t[3],
     ancount |-> Len(t[1]) + x[1], nscount |-> Len(t[2]) + x[2],
     arcount |-> Len(t[3]) + x[3], ip |-> ip, udp |-> udp, offload |-> offload]

OtherShape(ip, udp, offload) ==
    [dns |-> FALSE, qr |-> 0, an |-> <<>>, ns |-> <<>>, ar |-> <<>>,
     ancount |-> 0, nscount |-> 0, arcount |-> 0, ip |-> ip, udp |-> udp,
     offload |-> offload]

\* The dissector reads at most the declared number of records of a section,
\* and reads the sections in order from the bytes captured: a section never
\* holds more records than its count, and a section short of its count (the
\* frame was cut) is followed by empty sections.
Dissectable(t, x) ==
    \A s \in 1..3 : x[s] > 0 => \A r \in (s + 1)..3 : Len(t[r]) = 0

\* Every shape of one packet.
RichShapes ==
    {OtherShape(l[1], l[2], l[3]) : l \in BOOLEAN \X BOOLEAN \X BOOLEAN}
    \cup {DnsShape(tx[1], qr, tx[2], l[1], l[2], l[3]) :
            tx \in {u \in Messages(MaxRecs) \X [1..3 -> 0..1] : Dissectable(u[1], u[2])},
            qr \in 0..1, l \in BOOLEAN \X BOOLEAN \X BOOLEAN}

\* The shapes longer captures are made of: at most one record, in the answer
\* section, over IPv4/UDP or over neither, with the sender's checksums.
CoarseShapes ==
    {OtherShape(b, b, FALSE) : b \in BOOLEAN}
    \cup {DnsShape(<<an, <<>>, <<>>>>, qr, <<x, 0, 0>>, b, b, FALSE) :
            an \in SectionsUpTo(1), qr \in 0..1, x \in 0..1, b \in BOOLEAN}

Captures ==
    {<<>>} \cup {<<s>> : s \in RichShapes}
    \cup UNION {[1..m -> CoarseShapes] : m \in 2..MaxPkts}

\* The k-th frame of a capture: its shape, the lengths and checksums of the
\* sender, and the k-th timestamp.
Stamp(s, k) ==
    [dns |-> s.dns, qr |-> s.qr, an |-> s.an, ns |-> s.ns, ar |-> s.ar,
     ancount |-> s.ancount, nscount |-> s.nscount, arcount |-> s.arcount,
     ip |-> s.ip, udp |-> s.udp,
     iplen |-> IF s.ip THEN IpLen(s) ELSE 0,
     ipchk |-> IF s.ip /\ ~s.offload THEN IpChk(s) ELSE 0,
     udplen |-> IF s.udp THEN UdpLen(s) ELSE 0,
     udpchk |-> IF s.udp /\ ~s.offload THEN UdpChk(s) ELSE 0,
     sec |-> k, usec |-> 250000 * k]

Frames(c) == [k \in 1..Len(c) |-> Stamp(c[k], k)]

\* ---------------------------------------------------------------- state
VARIABLES
    input_file,     \* the capture at input_pcap_file: [valid, frames]
    output_file,    \* the capture at output_pcap_file: [written, frames]
    first_output,   \* what the first run wrote, kept for the second run
    run,            \* 1: the run on the input; 2: the run on the first output
    pc,             \* where modify_pcap is
    err,            \* the error that ended the run, "none" while there is none
    pkts,           \* the packet objects rdpcap returned, mutated in place
    orig,           \* the packets as rdpcap returned them
    new_pkts,       \* references (positions in pkts) appended so far
    new_ip,         \* the derived target address
    idx,            \* the position in pkts of the loop's current packet
    section,        \* the section fix_section is in: 1 an, 2 ns, 3 ar
    i,              \* fix_section's loop variable
    modified,       \* the nonlocal flag
    original_time,  \* packet.time saved at line 22
    touched,        \* positions in pkts of the packets a field of which was assigned or deleted
    sciper,         \* the argument of a call of convert_sciper_to_ip
    result          \* what that call returned

vars ==
    <<input_file, output_file, first_output, run, pc, err, pkts, orig, new_pkts,
      new_ip, idx, section, i, modified, original_time, touched, sciper, result>>

NoOutput == [written |-> FALSE, frames |-> <<>>]

Init ==
    /\ input_file \in {[valid |-> FALSE, frames |-> <<>>]}
                      \cup {[valid |-> TRUE, frames |-> Frames(c)] : c \in Captures}
    /\ output_file = NoOutput
    /\ first_output = NoOutput
    /\ run = 1
    /\ pc = "start"
    /\ err = "none"
    /\ pkts = <<>>
    /\ orig = <<>>
    /\ new_pkts = <<>>
    /\ new_ip = <<>>
    /\ idx = 0
    /\ section = 0
    /\ i = 0
    /\ modified = FALSE
    /\ original_time = 0
    /\ touched = {}
    /\ sciper = <<>>
    /\ result = <<>>

\* ---------------------------------------------------------- modify_pcap
\* packet.haslayer(DNS) and packet[DNS].qr == 1
IsResponseAnyQr(p) == p.dns
IsResponse(p) == p.dns /\ p.qr = 1

\* section and count of the call fix_section(dns.an, dns.ancount), ...
SectionOf(p, s) == CASE s = 1 -> p.an [] s = 2 -> p.ns [] s = 3 -> p.ar
CountOf(p, s) == CASE s = 1 -> p.ancount [] s = 2 -> p.nscount [] s = 3 -> p.arcount

\* if rr.type == 1
IsAnyRecord(rr) == TRUE
IsARecord(rr) == rr.type = TypeA

\* rr.rdata = new_ip, for rr = section[j] of section s of packet p
SetRdata(p, s, j, v) ==
    CASE s = 1 -> [p EXCEPT !.an[j].rdata = v]
      [] s = 2 -> [p EXCEPT !.ns[j].rdata = v]
      [] s = 3 -> [p EXCEPT !.ar[j].rdata = v]

\* del packet[IP].len, del packet[IP].chksum, and the same for UDP
DelIP(p) == IF p.ip THEN [p EXCEPT !.iplen = <<>>, !.ipchk = <<>>] ELSE p
DelUDP(p) == IF p.udp THEN [p EXCEPT !.udplen = <<>>, !.udpchk = <<>>] ELSE p

\* new_pkts.append(packet)
Prepended(lst, ref) == <<ref>> \o lst
Appended(lst, ref) == Append(lst, ref)

\* packet.time = original_time
TimeShifted(p, t) == [p EXCEPT !.time = t + 1]
TimeReset(p, t) == [p EXCEPT !.time = 0]
TimeRestored(p, t) == [p EXCEPT !.time = t]

\* the value of modified after the assignment of line 24
FlagKept(m) == m
FlagAtStart(m) == FALSE

Locals == <<section, i, modified, original_time>>
Files == <<input_file, output_file, first_output, run>>
Call == <<sciper, result>>

\* new_pkts = []; pkts = rdpcap(input_pcap_file)
Load ==
    /\ pc = "start"
    /\ input_file.valid
    /\ pkts' = [k \in 1..Len(input_file.frames) |-> ParsePacket(input_file.frames[k])]
    /\ orig' = pkts'
    /\ new_pkts' = <<>>
    /\ pc' = "derive"
    /\ UNCHANGED <<Files, Locals, Call, err, new_ip, idx, touched>>

\* rdpcap raises: the path is unreadable or the file is no capture
LoadFails ==
    /\ pc = "start"
    /\ ~input_file.valid
    /\ pc' = "error"
    /\ err' = "load"
    /\ UNCHANGED <<Files, Locals, Call, pkts, orig, new_pkts, new_ip, idx, touched>>

\* SCIPER = "377690"; new_ip = convert_sciper_to_ip(SCIPER); the loop starts
Derive ==
    /\ pc = "derive"
    /\ sciper' = SCIPER
    /\ result' = convert_sciper_to_ip(SCIPER)
    /\ new_ip' = result'
    /\ idx' = 1
    /\ pc' = "loop"
    /\ UNCHANGED <<Files, Locals, err, pkts, orig, new_pkts, touched>>

\* for packet in pkts: the list is exhausted
LoopEnd ==
    /\ pc = "loop"
    /\ idx > Len(pkts)
    /\ pc' = "write"
    /\ UNCHANGED <<Files, Locals, Call, err, pkts, orig, new_pkts, new_ip, idx, touched>>

\* not a DNS response: new_pkts.append(packet); continue
PassThrough ==
    /\ pc = "loop"
    /\ idx <= Len(pkts)
    /\ ~IsResponse(pkts[idx])
    /\ new_pkts' = Appended(new_pkts, idx)
    /\ idx' = idx + 1
    /\ UNCHANGED <<Files, Locals, Call, err, pc, pkts, orig, new_ip, touched>>

\* a DNS response: original_time = packet.time; modified = False;
\* fix_section(dns.an, dns.ancount) is entered
BeginResponse ==
    /\ pc = "loop"
    /\ idx <= Len(pkts)
    /\ IsResponse(pkts[idx])
    /\ original_time' = pkts[idx].time
    /\ modified' = FlagAtStart(modified)
    /\ section' = 1
    /\ i' = 0
    /\ pc' = "fix"
    /\ UNCHANGED <<Files, Call, err, pkts, orig, new_pkts, new_ip, idx, touched>>

\* one iteration of for i in range(count): rr = section[i]; the A record is
\* overwritten
FixRecord ==
    /\ pc = "fix"
    /\ i < CountOf(pkts[idx], section)
    /\ i + 1 <= Len(SectionOf(pkts[idx], section))
    /\ IF IsARecord(SectionOf(pkts[idx], section)[i + 1])
       THEN /\ pkts' = [pkts EXCEPT ![idx] = SetRdata(@, section, i + 1, new_ip)]
            /\ modified' = TRUE
            /\ touched' = touched \cup {idx}
       ELSE UNCHANGED <<pkts, modified, touched>>
    /\ i' = i + 1
    /\ UNCHANGED <<Files, Call, err, pc, orig, new_pkts, new_ip, idx, section, original_time>>

\* the IndexError is caught and what was collected is written
FixIndexErrorSaves ==
    /\ pc = "fix"
    /\ i < CountOf(pkts[idx], section)
    /\ i + 1 > Len(SectionOf(pkts[idx], section))
    /\ pc' = "error"
    /\ err' = "index"
    /\ output_file' = [written |-> TRUE,
                       frames |-> [k \in 1..Len(new_pkts) |-> SerializePacket(pkts[new_pkts[k]])]]
    /\ UNCHANGED <<input_file, first_output, run, Locals, Call, pkts, orig, new_pkts,
                   new_ip, idx, touched>>

\* a missing record is skipped
FixIndexSkip ==
    /\ pc = "fix"
    /\ i < CountOf(pkts[idx], section)
    /\ i + 1 > Len(SectionOf(pkts[idx], section))
    /\ i' = i + 1
    /\ UNCHANGED <<Files, Call, err, pc, pkts, orig, new_pkts, new_ip, idx, section,
                   modified, original_time, touched>>

\* rr = section[i] with i past the end of the section: IndexError, which
\* nothing catches
FixIndexError ==
    /\ pc = "fix"
    /\ i < CountOf(pkts[idx], section)
    /\ i + 1 > Len(SectionOf(pkts[idx], section))
    /\ pc' = "error"
    /\ err' = "index"
    /\ UNCHANGED <<Files, Locals, Call, pkts, orig, new_pkts, new_ip, idx, touched>>

\* range(count) is exhausted: the next call of fix_section, or line 38
SectionDone ==
    /\ pc = "fix"
    /\ i >= CountOf(pkts[idx], section)
    /\ IF section < 3
       THEN section' = section + 1 /\ i' = 0 /\ pc' = pc
       ELSE pc' = "check" /\ UNCHANGED <<section, i>>
    /\ UNCHANGED <<Files, Call, err, pkts, orig, new_pkts, new_ip, idx, modified,
                   original_time, touched>>

\* if not modified: new_pkts.append(packet); continue
Unmodified ==
    /\ pc = "check"
    /\ ~modified
    /\ new_pkts' = Appended(new_pkts, idx)
    /\ idx' = idx + 1
    /\ pc' = "loop"
    /\ UNCHANGED <<Files, Locals, Call, err, pkts, orig, new_ip, touched>>

\* modified: the length and checksum fields of IP and UDP are deleted
Invalidate ==
    /\ pc = "check"
    /\ modified
    /\ pkts' = [pkts EXCEPT ![idx] = DelUDP(DelIP(@))]
    /\ touched' = touched \cup {idx}
    /\ pc' = "restore"
    /\ UNCHANGED <<Files, Locals, Call, err, orig, new_pkts, new_ip, idx>>

\* packet.time = original_time; new_pkts.append(packet)
Restore ==
    /\ pc = "restore"
    /\ pkts' = [pkts EXCEPT ![idx] = TimeRestored(@, original_time)]
    /\ new_pkts' = Appended(new_pkts, idx)
    /\ idx' = idx + 1
    /\ pc' = "loop"
    /\ UNCHANGED <<Files, Locals, Call, err, orig, new_ip, touched>>

\* wrpcap(output_pcap_file, new_pkts)
Write ==
    /\ pc = "write"
    /\ output_file' = [written |-> TRUE,
                       frames |-> [k \in 1..Len(new_pkts) |-> SerializePacket(pkts[new_pkts[k]])]]
    /\ pc' = "done"
    /\ UNCHANGED <<input_file, first_output, run, Locals, Call, err, pkts, orig,
                   new_pkts, new_ip, idx, touched>>

\* modify_pcap is called again, on the file the first call wrote
Rerun ==
    /\ pc = "done"
    /\ run = 1
    /\ input_file' = [valid |-> TRUE, frames |-> output_file.frames]
    /\ first_output' = output_file
    /\ output_file' = NoOutput
    /\ run' = 2
    /\ pc' = "start"
    /\ pkts' = <<>>
    /\ orig' = <<>>
    /\ new_pkts' = <<>>
    /\ new_ip' = <<>>
    /\ idx' = 0
    /\ section' = 0
    /\ i' = 0
    /\ modified' = FALSE
    /\ original_time' = 0
    /\ touched' = {}
    /\ sciper' = <<>>
    /\ result' = <<>>
    /\ UNCHANGED err

Next ==
    \/ Load
    \/ LoadFails
    \/ Derive
    \/ LoopEnd
    \/ PassThrough
    \/ BeginResponse
    \/ FixRecord
    \/ FixIndexError
    \/ SectionDone
    \/ Unmodified
    \/ Invalidate
    \/ Restore
    \/ Write
    \/ Rerun

Spec == Init /\ [][Next]_vars

\* ------------------------------------- convert_sciper_to_ip on its own
\* Every string of at most MaxLen of the digits of Digits.
Identifiers == UNION {[1..n -> Digits] : n \in 0..MaxLen}

InitSciper ==
    /\ sciper \in Identifiers
    /\ result = <<>>
    /\ pc = "call"
    /\ input_file = [valid |-> FALSE, frames |-> <<>>]
    /\ output_file = NoOutput
    /\ first_output = NoOutput
    /\ run = 1
    /\ err = "none"
    /\ pkts = <<>>
    /\ orig = <<>>
    /\ new_pkts = <<>>
    /\ new_ip = <<>>
    /\ idx = 0
    /\ section = 0
    /\ i = 0
    /\ modified = FALSE
    /\ original_time = 0
    /\ touched = {}

\* convert_sciper_to_ip(sciper) is called and returns
CallConvert ==
    /\ pc = "call"
    /\ result' = convert_sciper_to_ip(sciper)
    /\ pc' = "returned"
    /\ UNCHANGED <<Files, Locals, sciper, err, pkts, orig, new_pkts, new_ip, idx, touched>>

NextSciper == CallConvert

SpecSciper == InitSciper /\ [][NextSciper]_vars

\* ------------------------------------------------------------- claims
Target == <<"0", "0", ".", "3", "7", ".", "7", "6", ".", "9", "0">>

TargetOctets == <<0, 37, 76, 90>>

In == input_file.frames

Out == output_file.frames

\* p holds an A record in one of its three sections
HasA(p) ==
    \E s \in 1..3 : \E j \in 1..Len(SectionOf(p, s)) : SectionOf(p, s)[j].type = 1

RespWithA(p) == p.dns /\ p.qr = 1 /\ HasA(p)

\* packet k has been appended to new_pkts
Finished(k) == \E n \in 1..Len(new_pkts) : new_pkts[n] = k

\* a frame without what a rewrite may change: the octets of its A records and
\* its length and checksum fields
Blank(w) == IF w.type = 1 THEN [w EXCEPT !.octets = <<>>] ELSE w

Skeleton(f) ==
    [f EXCEPT !.an = [j \in 1..Len(f.an) |-> Blank(f.an[j])],
              !.ns = [j \in 1..Len(f.ns) |-> Blank(f.ns[j])],
              !.ar = [j \in 1..Len(f.ar) |-> Blank(f.ar[j])],
              !.iplen = 0, !.ipchk = 0, !.udplen = 0, !.udpchk = 0]

\* C1: each packet is appended to new_pkts exactly once and in input order,
\* whichever branch it takes, and when modify_pcap completes the output has
\* as many frames as the input and its Nth frame is the Nth input frame,
\* rewritten or not.
C1_OrderPreserved ==
    /\ new_pkts = [n \in 1..Len(new_pkts) |-> n]
    /\ pc = "loop" => Len(new_pkts) = idx - 1
    /\ pc = "done" =>
         /\ Len(Out) = Len(In)
         /\ \A n \in 1..Len(In) : Skeleton(Out[n]) = Skeleton(In[n])

C1_Witness ==
    /\ pc = "done"
    /\ run = 1
    /\ Len(Out) >= 2
    /\ touched = {2}

\* C2: at the end of a run that loaded its input, a packet has been modified
\* (a record overwritten or a length or checksum field deleted) if and only
\* if it is a DNS response holding an A record, also when a declared count
\* exceeds the records of its section.
C2_ModifiedIffResponseWithA ==
    (pc \in {"done", "error"} /\ err # "load") =>
        \A k \in 1..Len(pkts) : (k \in touched) <=> RespWithA(orig[k])

\* C3: in the output of modify_pcap, every A record of a DNS response that
\* holds an A record carries the derived target address, and every other
\* record of it has the type and data it had in the input.
C3_ARecordsRewritten ==
    pc = "done" =>
        \A k \in 1..Len(pkts) : RespWithA(orig[k]) =>
            \A s \in 1..3 :
                /\ Len(SectionOf(pkts[k], s)) = Len(SectionOf(orig[k], s))
                /\ Len(SectionOf(Out[k], s)) = Len(SectionOf(In[k], s))
                /\ \A j \in 1..Len(SectionOf(orig[k], s)) :
                     LET o == SectionOf(orig[k], s)[j]
                         n == SectionOf(pkts[k], s)[j]
                         v == SectionOf(In[k], s)[j]
                         w == SectionOf(Out[k], s)[j]
                     IN  /\ n.type = o.type
                         /\ w.type = v.type
                         /\ IF o.type = 1
                            THEN n.rdata = Target /\ w.octets = TargetOctets
                            ELSE n = o /\ w = v

C3_Witness ==
    /\ pc = "done"
    /\ run = 1
    /\ \E k \in 1..Len(pkts) :
         /\ RespWithA(orig[k])
         /\ \E s \in 1..3 : \E j \in 1..Len(SectionOf(orig[k], s)) :
              SectionOf(orig[k], s)[j].type # 1
         /\ Out[k].ar # <<>>

\* C4: a packet without a DNS layer, a DNS query (even one with A records)
\* and a DNS response without A records are never changed in memory, and
\* their frames in the output equal their frames in the input, field by
\* field, lengths, checksums and timestamp included.
C4_PassThroughUnchanged ==
    \A k \in 1..Len(pkts) : ~RespWithA(orig[k]) =>
        /\ pkts[k] = orig[k]
        /\ pc = "done" => Out[k] = In[k]

C4_Witness ==
    /\ pc = "done"
    /\ \E k \in 1..Len(pkts) :
         /\ orig[k].dns /\ orig[k].qr = 0 /\ HasA(orig[k])
         /\ In[k].udp /\ In[k].udpchk = 0
         /\ Out[k] = In[k]

\* C5: a modified packet keeps its capture timestamp: in memory when it is
\* appended, and in the frame written for it.
C5_TimestampKept ==
    /\ \A n \in 1..Len(new_pkts) : pkts[new_pkts[n]].time = orig[new_pkts[n]].time
    /\ pc = "done" =>
         \A k \in touched : Out[k].sec = In[k].sec /\ Out[k].usec = In[k].usec

C5_Witness ==
    /\ pc = "done"
    /\ \E k \in touched :
         /\ pkts[k].ipchk = <<>> /\ pkts[k].ip
         /\ Out[k].an # In[k].an
         /\ Out[k].sec = In[k].sec

\* C6: the run of modify_pcap on the output of a first run writes a file
\* equal to that output.
C6_Idempotent ==
    (run = 2 /\ pc = "done") => output_file = first_output

C6_Witness ==
    /\ run = 2
    /\ pc = "done"
    /\ touched # {}
    /\ output_file = first_output

\* C8: the output file is written only by the last step of a run that
\* processed every packet, and then holds a frame for every input frame, in
\* order; a run that ended in an error has written nothing.
C8_NoPartialOutput ==
    /\ output_file.written =>
         /\ pc = "done"
         /\ Len(Out) = Len(In)
         /\ \A n \in 1..Len(In) : Out[n].sec = In[n].sec /\ Out[n].usec = In[n].usec
    /\ pc = "error" => ~output_file.written

C8_Witness ==
    /\ pc = "error"
    /\ err = "index"
    /\ Len(new_pkts) >= 1
    /\ ~output_file.written

IpInvalidated(p) == p.ip /\ p.iplen = <<>> /\ p.ipchk = <<>>

UdpInvalidated(p) == p.udp /\ p.udplen = <<>> /\ p.udpchk = <<>>

\* C9: the IP and UDP length and checksum fields of a packet are deleted if
\* and only if the packet reached line 38 with modified true (its own A
\* records were rewritten) and has that layer; any other packet keeps them as
\* loaded.  modified is false when fix_section is first entered for a packet.
C9_InvalidationOnlyIfModified ==
    /\ \A k \in 1..Len(pkts) :
         IF RespWithA(orig[k]) /\ (Finished(k) \/ (pc = "restore" /\ k = idx))
         THEN /\ pkts[k].ip => IpInvalidated(pkts[k])
              /\ pkts[k].udp => UdpInvalidated(pkts[k])
         ELSE /\ pkts[k].iplen = orig[k].iplen /\ pkts[k].ipchk = orig[k].ipchk
              /\ pkts[k].udplen = orig[k].udplen /\ pkts[k].udpchk = orig[k].udpchk
    /\ (pc = "fix" /\ section = 1 /\ i = 0) => ~modified
    /\ pc \in {"check", "restore"} => (modified <=> HasA(orig[idx]))

C9_Witness ==
    /\ pc = "done"
    /\ Len(pkts) >= 2
    /\ IpInvalidated(pkts[1])
    /\ UdpInvalidated(pkts[1])
    /\ orig[2].dns /\ orig[2].qr = 1 /\ ~HasA(orig[2])
    /\ pkts[2].ip /\ pkts[2].iplen # <<>> /\ pkts[2].udpchk # <<>>

\* C10: fix_section reads the records of a section at the indices 0, 1, ...
\* in turn up to the declared count, the sections in the order answer,
\* authority, additional: while it runs, the A records read so far, and only
\* they, are overwritten.  A read at an index the section does not have ends
\* the run in an IndexError, the A records read before being overwritten
\* already; no packet with a section short of its count is ever appended.
C10_ReadsByDeclaredCount ==
    /\ (pc = "fix" \/ (pc = "error" /\ err = "index")) =>
         /\ section \in 1..3
         /\ i <= CountOf(orig[idx], section)
         /\ i <= Len(SectionOf(orig[idx], section))
         /\ \A s \in 1..(section - 1) :
              Len(SectionOf(orig[idx], s)) = CountOf(orig[idx], s)
         /\ \A s \in 1..3 : \A j \in 1..Len(SectionOf(orig[idx], s)) :
              SectionOf(pkts[idx], s)[j] =
                  IF (s < section \/ (s = section /\ j <= i))
                     /\ SectionOf(orig[idx], s)[j].type = 1
                  THEN [type |-> 1, rdata |-> Target]
                  ELSE SectionOf(orig[idx], s)[j]
    /\ (pc = "error" /\ err = "index") =>
         /\ i = Len(SectionOf(orig[idx], section))
         /\ i < CountOf(orig[idx], section)
         /\ ~Finished(idx)
         /\ ~output_file.written
    /\ \A k \in 1..Len(pkts) :
         (orig[k].dns /\ orig[k].qr = 1
          /\ (Finished(k) \/ (k = idx /\ pc \in {"check", "restore"}))) =>
             \A s \in 1..3 : Len(SectionOf(orig[k], s)) = CountOf(orig[k], s)

C10_Witness ==
    /\ pc = "error"
    /\ err = "index"
    /\ idx \in touched
    /\ pkts[idx].an # orig[idx].an
    /\ i >= 1

\* C7: convert_sciper_to_ip(s) is "00." followed by the characters of s in
\* order with a "." after every second one that is not the last: "377690"
\* gives "00.37.76.90" and "" gives "00.".
C7_DottedPairs ==
    pc = "returned" =>
        LET n == Len(sciper)
            chunks == (n + 1) \div 2
        IN  /\ Len(result) = 3 + n + (IF chunks = 0 THEN 0 ELSE chunks - 1)
            /\ SubSeq(result, 1, 3) = <<"0", "0", ".">>
            /\ \A j \in 1..n : result[3 + j + ((j - 1) \div 2)] = sciper[j]
            /\ \A m \in 1..(chunks - 1) : result[3 + 3 * m] = "."
            /\ sciper = <<"3", "7", "7", "6", "9", "0">> => result = Target
            /\ sciper = <<>> => result = <<"0", "0", ".">>

C7_Witness ==
    /\ pc = "returned"
    /\ sciper = <<"3", "7", "7", "6", "9", "0">>
    /\ result = Target
====
